---------------------------- MODULE Spec2Model ----------------------------
(***************************************************************************)
(* Model of the fixed-point Decimal crate (decimal/src/lib.rs), of its     *)
(* quickcheck properties (decimal/tests/lib.rs) and of the Luhn checksum   *)
(* crate (luhn-check/src/lib.rs).                                          *)
(*                                                                         *)
(* Every function of the crates is pure, so the state is the call being    *)
(* made: which function, with which arguments, and what it returned.  A    *)
(* call either returns a value (tag "Ok"), returns Err(kind) (tag "Err")   *)
(* or panics (tag "Panic").                                                *)
(*                                                                         *)
(* Integer widths.  i64 is scaled down to IntBits bits and the u32 of a    *)
(* scale / character index to the range 0..U32_MAX.  Arithmetic is the     *)
(* overflow-checked arithmetic the crate's own tests pin down with         *)
(* #[should_panic(expected = "arithmetic operation overflowed")]           *)
(* (lib.rs 277-281, 316-320, 325-329, 341-350): an out-of-range result     *)
(* panics.  Division by zero and MIN / -1 panic in every build.            *)
(***************************************************************************)
EXTENDS Integers, Sequences, FiniteSets, TLC

VARIABLES op, self, other, new_scale, str, result

vars == <<op, self, other, new_scale, str, result>>

---------------------------------------------------------------------------
(* Bounds *)

\* width of the signed integer standing for i64
IntBits == 6
\* largest scale drawn for an operand
MaxScale == 4
\* longest string handed to from_str / calculate_check_digit / valid_str
MaxLen == 4

I64_MIN == -(2 ^ (IntBits - 1))
I64_MAX == (2 ^ (IntBits - 1)) - 1
\* u32::MAX, scaled down: every drawn scale still renders within it
\* ("-0." and MaxScale digits), and the sum of two drawn scales can exceed it
U32_MAX == MaxScale + 3

InI64(n) == I64_MIN <= n /\ n <= I64_MAX
InU32(n) == 0 <= n /\ n <= U32_MAX

---------------------------------------------------------------------------
(* Outcomes of a call *)

Ok(v) == [tag |-> "Ok", val |-> v]
Err(kind) == [tag |-> "Err", val |-> kind]
Panic(msg) == [tag |-> "Panic", val |-> msg]

IsOk(r) == r.tag = "Ok"
IsErr(r) == r.tag = "Err"
IsPanic(r) == r.tag = "Panic"

Overflowed == Panic("arithmetic operation overflowed")
DivByZero == Panic("attempted to divide by zero")
DivOverflow == Panic("attempted to divide with overflow")
RemByZero == Panic("attempted remainder with a divisor of zero")
RemOverflow == Panic("attempted remainder with overflow")

\* Option<T>
None == [some |-> FALSE, val |-> 0]
Some(v) == [some |-> TRUE, val |-> v]

---------------------------------------------------------------------------
(* Primitive integer operations of the build under test *)

Abs(n) == IF n < 0 THEN -n ELSE n

\* i64 `/`: truncates toward zero (operands already known to be legal)
TruncDiv(a, b) ==
    LET q == Abs(a) \div Abs(b)
    IN  IF (a < 0) # (b < 0) THEN -q ELSE q

\* i64 `%`: sign of the dividend
TruncRem(a, b) == a - (b * TruncDiv(a, b))

\* i64 `*` wrapping modulo 2^IntBits
WrappingMul(a, b) == Ok((((a * b) - I64_MIN) % (2 ^ IntBits)) + I64_MIN)

\* i64 `+`, `-`, `*` with overflow checks
CheckedAdd(a, b) == IF InI64(a + b) THEN Ok(a + b) ELSE Overflowed
CheckedSub(a, b) == IF InI64(a - b) THEN Ok(a - b) ELSE Overflowed
CheckedMul(a, b) == IF InI64(a * b) THEN Ok(a * b) ELSE Overflowed
CheckedNeg(a) == IF InI64(-a) THEN Ok(-a) ELSE Overflowed

\* i64 `/` and `%`: zero divisor and MIN / -1 panic
CheckedDiv(a, b) ==
    IF b = 0 THEN DivByZero
    ELSE IF a = I64_MIN /\ b = -1 THEN DivOverflow
    ELSE Ok(TruncDiv(a, b))
CheckedRem(a, b) ==
    IF b = 0 THEN RemByZero
    ELSE IF a = I64_MIN /\ b = -1 THEN RemOverflow
    ELSE Ok(TruncRem(a, b))

\* u32 `+` with overflow checks
CheckedAddU32(a, b) == IF InU32(a + b) THEN Ok(a + b) ELSE Overflowed

---------------------------------------------------------------------------
(* struct Decimal *)

new(unscaled, scale) == [unscaled |-> unscaled, scale |-> scale]

Unscaleds == I64_MIN .. I64_MAX
Scales == 0 .. MaxScale
Decimals == [unscaled : Unscaleds, scale : Scales]

\* fn downscale: down_by truncating divisions by 10
RECURSIVE downscale(_, _)
downscale(n, down_by) ==
    IF down_by = 0 THEN n ELSE downscale(TruncDiv(n, 10), down_by - 1)

\* upscale with wrapping products (overflow goes unnoticed)
RECURSIVE upscale_wrapping(_, _)
upscale_wrapping(n, up_by) ==
    IF up_by = 0 THEN Ok(n)
    ELSE upscale_wrapping(WrappingMul(n, 10).val, up_by - 1)

\* fn upscale: up_by multiplications by 10, each overflow-checked
RECURSIVE upscale(_, _)
upscale(n, up_by) ==
    IF up_by = 0 THEN Ok(n)
    ELSE LET m == CheckedMul(n, 10)
         IN  IF IsOk(m) THEN upscale(m.val, up_by - 1) ELSE m

\* adjust_scale rounding the last dropped digit half away from zero
adjust_scale_rounding(d, t) ==
    IF d.scale = t THEN Ok(d)
    ELSE IF d.scale > t
         THEN LET kept == downscale(d.unscaled, d.scale - t - 1)
                  half == IF kept < 0 THEN -5 ELSE 5
              IN  Ok(new(downscale(kept + half, 1), t))
         ELSE LET u == upscale(d.unscaled, t - d.scale)
              IN  IF IsOk(u) THEN Ok(new(u.val, t)) ELSE u

\* Decimal::adjust_scale
adjust_scale(d, t) ==
    IF d.scale = t THEN Ok(d)
    ELSE IF d.scale > t
         THEN Ok(new(downscale(d.unscaled, d.scale - t), t))
         ELSE LET u == upscale(d.unscaled, t - d.scale)
              IN  IF IsOk(u) THEN Ok(new(u.val, t)) ELSE u

\* i64::cmp
cmp(a, b) == IF a < b THEN "Less" ELSE IF a > b THEN "Greater" ELSE "Equal"

\* impl PartialOrd for Decimal
partial_cmp(a, b) ==
    IF a.scale = b.scale THEN Ok(Some(cmp(a.unscaled, b.unscaled)))
    ELSE IF a.scale > b.scale
         THEN LET u == upscale(b.unscaled, a.scale - b.scale)
              IN  IF IsOk(u) THEN Ok(Some(cmp(a.unscaled, u.val))) ELSE u
         ELSE LET u == upscale(a.unscaled, b.scale - a.scale)
              IN  IF IsOk(u) THEN Ok(Some(cmp(u.val, b.unscaled))) ELSE u

---------------------------------------------------------------------------
(* Arithmetic operators *)

\* Add aligning both operands to the smaller scale (downscaling the other one)
add_at_smaller_scale(a, b) ==
    LET m == IF a.scale <= b.scale THEN a.scale ELSE b.scale
        a2 == adjust_scale(a, m)
        b2 == adjust_scale(b, m)
        s == CheckedAdd(a2.val.unscaled, b2.val.unscaled)
    IN  IF IsOk(s) THEN Ok(new(s.val, m)) ELSE s

\* impl ops::Add for Decimal
RECURSIVE add(_, _)
add(a, b) ==
    IF a.scale = b.scale
    THEN LET s == CheckedAdd(a.unscaled, b.unscaled)
         IN  IF IsOk(s) THEN Ok(new(s.val, a.scale)) ELSE s
    ELSE IF a.scale < b.scale
         THEN LET a2 == adjust_scale(a, b.scale)
              IN  IF IsOk(a2) THEN add(a2.val, b) ELSE a2
         ELSE LET b2 == adjust_scale(b, a.scale)
              IN  IF IsOk(b2) THEN add(a, b2.val) ELSE b2

\* impl ops::Sub for Decimal
RECURSIVE sub(_, _)
sub(a, b) ==
    IF a.scale = b.scale
    THEN LET s == CheckedSub(a.unscaled, b.unscaled)
         IN  IF IsOk(s) THEN Ok(new(s.val, a.scale)) ELSE s
    ELSE IF a.scale < b.scale
         THEN LET a2 == adjust_scale(a, b.scale)
              IN  IF IsOk(a2) THEN sub(a2.val, b) ELSE a2
         ELSE LET b2 == adjust_scale(b, a.scale)
              IN  IF IsOk(b2) THEN sub(a, b2.val) ELSE b2

\* Mul aligning the scales as Add does instead of summing them
mul_at_larger_scale(a, b) ==
    LET p == CheckedMul(a.unscaled, b.unscaled)
    IN  IF ~IsOk(p) THEN p
        ELSE Ok(new(p.val, IF a.scale >= b.scale THEN a.scale ELSE b.scale))

\* impl ops::Mul for Decimal
mul(a, b) ==
    LET p == CheckedMul(a.unscaled, b.unscaled)
        s == CheckedAddU32(a.scale, b.scale)
    IN  IF ~IsOk(p) THEN p
        ELSE IF ~IsOk(s) THEN s
        ELSE Ok(new(p.val, s.val))

\* the dividend of Div and Rem: upscaled to the divisor's scale when that is larger
align_dividend(a, b) ==
    IF b.scale > a.scale THEN adjust_scale(a, b.scale) ELSE Ok(a)

\* Div aligning the dividend to the divisor's scale in both directions
div_at_divisor_scale(a, b) ==
    LET s == adjust_scale(a, b.scale)
    IN  IF ~IsOk(s) THEN s
        ELSE LET q == CheckedDiv(s.val.unscaled, b.unscaled)
             IN  IF IsOk(q) THEN Ok(new(q.val, s.val.scale - b.scale)) ELSE q

\* impl ops::Div for Decimal
div(a, b) ==
    LET s == align_dividend(a, b)
    IN  IF ~IsOk(s) THEN s
        ELSE LET q == CheckedDiv(s.val.unscaled, b.unscaled)
             IN  IF IsOk(q) THEN Ok(new(q.val, s.val.scale - b.scale)) ELSE q

\* Rem with the scale reduced by the divisor's scale, as Div does
rem_at_quotient_scale(a, b) ==
    LET s == align_dividend(a, b)
    IN  IF ~IsOk(s) THEN s
        ELSE LET r == CheckedRem(s.val.unscaled, b.unscaled)
             IN  IF IsOk(r) THEN Ok(new(r.val, s.val.scale - b.scale)) ELSE r

\* impl ops::Rem for Decimal
rem(a, b) ==
    LET s == align_dividend(a, b)
    IN  IF ~IsOk(s) THEN s
        ELSE LET r == CheckedRem(s.val.unscaled, b.unscaled)
             IN  IF IsOk(r) THEN Ok(new(r.val, s.val.scale)) ELSE r

---------------------------------------------------------------------------
(* Characters and strings: a string is the sequence of its characters *)

DigitChars == <<"0", "1", "2", "3", "4", "5", "6", "7", "8", "9">>
Digits == {DigitChars[i] : i \in 1..10}
\* the characters drawn for an input string: the digits, '-', '.', and 'g' for
\* any character that is none of these
Alphabet == Digits \cup {"-", ".", "g"}
Strings == UNION {[1..n -> Alphabet] : n \in 0..MaxLen}

\* char::to_digit(10)
to_digit(c) ==
    IF c \in Digits THEN Some((CHOOSE i \in 1..10 : DigitChars[i] = c) - 1) ELSE None

\* char::is_digit(10)
is_digit(c) == to_digit(c).some

\* format!("{}", n) of an integer
RECURSIVE nat_to_string(_)
nat_to_string(n) ==
    IF n < 10 THEN <<DigitChars[n + 1]>>
    ELSE nat_to_string(n \div 10) \o <<DigitChars[(n % 10) + 1]>>

i64_to_string(n) == IF n < 0 THEN <<"-">> \o nat_to_string(-n) ELSE nat_to_string(n)

\* String::insert(idx, c), idx counted from 0
insert(s, idx, c) == SubSeq(s, 1, idx) \o <<c>> \o SubSeq(s, idx + 1, Len(s))

\* the '0' written once per iteration of `for _ in 0..n`
zeros(n) == [i \in 1..n |-> "0"]

---------------------------------------------------------------------------
(* Parsing and display *)

\* impl str::FromStr for Decimal: the loop over s.chars() and the final match
RECURSIVE from_str_loop(_, _, _, _, _, _)
from_str_loop(cs, unscaled, scale, index, negative, seen_decimal) ==
    IF cs = <<>>
    THEN IF index = 0 THEN Err("Empty")
         ELSE IF negative
              THEN LET n == CheckedNeg(unscaled)
                   IN  IF IsOk(n) THEN Ok(new(n.val, scale)) ELSE n
              ELSE Ok(new(unscaled, scale))
    ELSE LET c == Head(cs)
             i == CheckedAddU32(index, 1)
         IN  IF c = "-" /\ index = 0
             THEN IF IsOk(i)
                  THEN from_str_loop(Tail(cs), unscaled, scale, i.val, TRUE, seen_decimal)
                  ELSE i
             ELSE IF c = "."
             THEN IF IsOk(i)
                  THEN from_str_loop(Tail(cs), unscaled, scale, i.val, negative, TRUE)
                  ELSE i
             ELSE IF is_digit(c)
             THEN LET m == CheckedMul(unscaled, 10)
                      u == CheckedAdd(m.val, to_digit(c).val)
                      k == IF seen_decimal THEN CheckedAddU32(scale, 1) ELSE Ok(scale)
                  IN  IF ~IsOk(m) THEN m
                      ELSE IF ~IsOk(u) THEN u
                      ELSE IF ~IsOk(k) THEN k
                      ELSE IF ~IsOk(i) THEN i
                      ELSE from_str_loop(Tail(cs), u.val, k.val, i.val, negative, seen_decimal)
             ELSE Err("InvalidDigit")

from_str(s) == from_str_loop(s, 0, 0, 0, FALSE, FALSE)

\* Display padding only when scale > unscaled_len: no "0." when they are equal
fmt_no_leading_zero(d) ==
    IF d.scale = 0 THEN i64_to_string(d.unscaled)
    ELSE LET full == i64_to_string(d.unscaled)
             negative == d.unscaled < 0
             unscaled_str == IF negative THEN Tail(full) ELSE full
             sign == IF negative THEN <<"-">> ELSE <<>>
             unscaled_len == Len(unscaled_str)
         IN  IF d.scale > unscaled_len
             THEN sign \o <<"0", ".">> \o zeros(d.scale - unscaled_len) \o unscaled_str
             ELSE sign \o insert(unscaled_str, unscaled_len - d.scale, ".")

\* impl fmt::Display for Decimal
fmt(d) ==
    IF d.scale = 0 THEN i64_to_string(d.unscaled)
    ELSE LET full == i64_to_string(d.unscaled)
             negative == d.unscaled < 0
             unscaled_str == IF negative THEN Tail(full) ELSE full
             sign == IF negative THEN <<"-">> ELSE <<>>
             unscaled_len == Len(unscaled_str)
         IN  IF d.scale >= unscaled_len
             THEN sign \o <<"0", ".">> \o zeros(d.scale - unscaled_len) \o unscaled_str
             ELSE sign \o insert(unscaled_str, unscaled_len - d.scale, ".")

---------------------------------------------------------------------------
(* The quickcheck properties of decimal/tests/lib.rs *)

UnwrapOnErr == Panic("called Result::unwrap() on an Err value")

\* fn displayed_strings_reparse_as_same_value
displayed_strings_reparse_as_same_value(unscaled, scale) ==
    LET original == new(unscaled, scale)
        parsed == from_str(fmt(original))
    IN  IF IsPanic(parsed) THEN parsed
        ELSE IF IsErr(parsed) THEN UnwrapOnErr
        ELSE Ok(original = parsed.val)

\* fn divide_then_multiply_then_add_remainder_restores_original_value
divide_then_multiply_then_add_remainder_restores_original_value(dividend_unscaled, divisor_unscaled, scale) ==
    LET dividend == new(dividend_unscaled, scale)
        divisor == new(divisor_unscaled, scale)
        quotient == div(dividend, divisor)
        remainder == rem(dividend, divisor)
        product == mul(quotient.val, divisor)
        sum == add(product.val, remainder.val)
        rebuilt_dividend == adjust_scale(sum.val, scale)
    IN  IF divisor_unscaled = 0 THEN Ok("discard")
        ELSE IF ~IsOk(quotient) THEN quotient
        ELSE IF ~IsOk(remainder) THEN remainder
        ELSE IF ~IsOk(product) THEN product
        ELSE IF ~IsOk(sum) THEN sum
        ELSE IF ~IsOk(rebuilt_dividend) THEN rebuilt_dividend
        ELSE IF dividend = rebuilt_dividend.val THEN Ok("passed")
        ELSE Ok("error")

---------------------------------------------------------------------------
(* luhn-check *)

\* fn sum_digits
RECURSIVE sum_digits(_)
sum_digits(i) == IF i > 0 THEN (i % 10) + sum_digits(i \div 10) ELSE 0

\* fn butlast
butlast(n, s) == SubSeq(s, 1, Len(s) - n)

\* the fold of calculate_check_digit over chars().rev().zip(0..): the characters
\* from the last one (index 0) to the first, carrying Option<u32>
RECURSIVE luhn_fold(_, _, _)
luhn_fold(cs, index, acc) ==
    IF cs = <<>> THEN acc
    ELSE LET c == cs[Len(cs)]
             d == to_digit(c)
             next == IF ~acc.some THEN None
                     ELSE IF ~d.some THEN None
                     ELSE Some(acc.val + (IF index % 2 = 0 THEN sum_digits(d.val * 2) ELSE d.val))
         IN  luhn_fold(SubSeq(cs, 1, Len(cs) - 1), index + 1, next)

\* fn calculate_check_digit
calculate_check_digit(partial_num) ==
    IF partial_num = <<>> THEN None
    ELSE LET sum == luhn_fold(partial_num, 0, Some(0))
         IN  IF sum.some THEN Some(10 - (sum.val % 10)) ELSE None

\* fn valid_str
valid_str(num) ==
    IF num = <<>> THEN FALSE
    ELSE LET digit == to_digit(num[Len(num)])
             real_digit == calculate_check_digit(butlast(1, num))
         IN  IF ~digit.some THEN FALSE
             ELSE IF ~real_digit.some THEN FALSE
             ELSE digit.val = real_digit.val

---------------------------------------------------------------------------
(* Actions *)

NoDecimal == new(0, 0)

Init ==
    /\ op = "idle"
    /\ self = NoDecimal
    /\ other = NoDecimal
    /\ new_scale = 0
    /\ str = <<>>
    /\ result = Ok(FALSE)

DoAdjustScale ==
    /\ op = "idle"
    /\ \E d \in Decimals, t \in Scales :
          /\ self' = d
          /\ new_scale' = t
          /\ result' = adjust_scale(d, t)
    /\ op' = "adjust_scale"
    /\ UNCHANGED <<other, str>>

DoPartialCmp ==
    /\ op = "idle"
    /\ \E a \in Decimals, b \in Decimals :
          /\ self' = a
          /\ other' = b
          /\ result' = partial_cmp(a, b)
    /\ op' = "partial_cmp"
    /\ UNCHANGED <<new_scale, str>>

DoAdd ==
    /\ op = "idle"
    /\ \E a \in Decimals, b \in Decimals :
          /\ self' = a
          /\ other' = b
          /\ result' = add(a, b)
    /\ op' = "add"
    /\ UNCHANGED <<new_scale, str>>

DoSub ==
    /\ op = "idle"
    /\ \E a \in Decimals, b \in Decimals :
          /\ self' = a
          /\ other' = b
          /\ result' = sub(a, b)
    /\ op' = "sub"
    /\ UNCHANGED <<new_scale, str>>

DoMul ==
    /\ op = "idle"
    /\ \E a \in Decimals, b \in Decimals :
          /\ self' = a
          /\ other' = b
          /\ result' = mul(a, b)
    /\ op' = "mul"
    /\ UNCHANGED <<new_scale, str>>

DoDiv ==
    /\ op = "idle"
    /\ \E a \in Decimals, b \in Decimals :
          /\ self' = a
          /\ other' = b
          /\ result' = div(a, b)
    /\ op' = "div"
    /\ UNCHANGED <<new_scale, str>>

DoRem ==
    /\ op = "idle"
    /\ \E a \in Decimals, b \in Decimals :
          /\ self' = a
          /\ other' = b
          /\ result' = rem(a, b)
    /\ op' = "rem"
    /\ UNCHANGED <<new_scale, str>>

DoFromStr ==
    /\ op = "idle"
    /\ \E s \in Strings :
          /\ str' = s
          /\ result' = from_str(s)
    /\ op' = "from_str"
    /\ UNCHANGED <<self, other, new_scale>>

DoFmt ==
    /\ op = "idle"
    /\ \E d \in Decimals :
          /\ self' = d
          /\ result' = Ok(fmt(d))
    /\ op' = "fmt"
    /\ UNCHANGED <<other, new_scale, str>>

DoReparseTest ==
    /\ op = "idle"
    /\ \E d \in Decimals :
          /\ self' = d
          /\ str' = fmt(d)
          /\ result' = displayed_strings_reparse_as_same_value(d.unscaled, d.scale)
    /\ op' = "displayed_strings_reparse_as_same_value"
    /\ UNCHANGED <<other, new_scale>>

DoDivideTest ==
    /\ op = "idle"
    /\ \E a \in Unscaleds, b \in Unscaleds, s \in Scales :
          /\ self' = new(a, s)
          /\ other' = new(b, s)
          /\ new_scale' = s
          /\ result' = divide_then_multiply_then_add_remainder_restores_original_value(a, b, s)
    /\ op' = "divide_then_multiply_then_add_remainder_restores_original_value"
    /\ UNCHANGED str

DoCalculateCheckDigit ==
    /\ op = "idle"
    /\ \E s \in Strings :
          /\ str' = s
          /\ result' = Ok(calculate_check_digit(s))
    /\ op' = "calculate_check_digit"
    /\ UNCHANGED <<self, other, new_scale>>

DoValidStr ==
    /\ op = "idle"
    /\ \E s \in Strings :
          /\ str' = s
          /\ result' = Ok(valid_str(s))
    /\ op' = "valid_str"
    /\ UNCHANGED <<self, other, new_scale>>

Next ==
    \/ DoFromStr
    \/ DoFmt
    \/ DoReparseTest
    \/ DoDivideTest
    \/ DoCalculateCheckDigit
    \/ DoValidStr
    \/ DoAdjustScale
    \/ DoPartialCmp
    \/ DoAdd
    \/ DoSub
    \/ DoMul
    \/ DoDiv
    \/ DoRem

Spec == Init /\ [][Next]_vars

---------------------------------------------------------------------------
(* Properties *)

Pow10(k) == 10 ^ k

ReparseTest == "displayed_strings_reparse_as_same_value"
DivideTest == "divide_then_multiply_then_add_remainder_restores_original_value"

IsOverflowPanic(r) == IsPanic(r) /\ r.val = "arithmetic operation overflowed"

\* C1: round-trip law: for every (unscaled, scale), i64::MIN and i64::MAX
\* included, parsing the string Display produced succeeds and yields a Decimal
\* with the same unscaled value and the same scale.
C1_RoundTrip ==
    op = ReparseTest =>
        LET parsed == from_str(str)
        IN  /\ str = fmt(self)
            /\ IsOk(parsed)
            /\ parsed.val = self
            /\ IsOk(result)
            /\ result.val = TRUE

HasInvalidChar(s) ==
    \E i \in 1..Len(s) :
        ~(s[i] \in Digits \/ s[i] = "." \/ (s[i] = "-" /\ i = 1))

\* C3: from_str never panics on malformed input: a string holding a rejected
\* character yields Err(InvalidDigit) whatever precedes that character, and
\* the empty string yields Err(Empty).
C3_MalformedInputIsAnError ==
    op = "from_str" =>
        /\ (str = <<>> => (IsErr(result) /\ result.val = "Empty"))
        /\ (HasInvalidChar(str) => (IsErr(result) /\ result.val = "InvalidDigit"))

\* C4: upscaling by k = target - current digits fails with the overflow
\* condition whenever unscaled * 10^k or the power 10^k itself does not fit
\* the signed range.
C4_OverflowOfProductOrPower ==
    (op = "adjust_scale" /\ self.scale < new_scale) =>
        LET k == new_scale - self.scale
        IN  (~InI64(self.unscaled * Pow10(k)) \/ ~InI64(Pow10(k)))
                => IsOverflowPanic(result)

\* C4 (amended): upscaling by k digits fails with the overflow condition
\* exactly when the product unscaled * 10^k does not fit the signed range, and
\* otherwise returns that exact product (never a wrapped value); 10^k alone is
\* never computed, so unscaled = 0 upscales to 0 for every k.
C4_OverflowOfProduct ==
    (op = "adjust_scale" /\ self.scale < new_scale) =>
        LET k == new_scale - self.scale
            product == self.unscaled * Pow10(k)
        IN  IF InI64(product)
            THEN IsOk(result) /\ result.val = new(product, new_scale)
            ELSE IsOverflowPanic(result)

C4_Witness ==
    /\ op = "adjust_scale"
    /\ self = new(I64_MAX, 3)
    /\ new_scale = 4
    /\ IsOverflowPanic(result)

\* the order of the represented quantities a.unscaled / 10^a.scale and
\* b.unscaled / 10^b.scale
NumericOrder(a, b) ==
    cmp(a.unscaled * Pow10(b.scale), b.unscaled * Pow10(a.scale))

\* C5: partial_cmp(a, b) returns Some(o) for every pair of Decimals (never
\* None, never a failure), o being the order of the represented quantities
\* whatever the scales.
C5_AlwaysDecidable ==
    op = "partial_cmp" =>
        /\ IsOk(result)
        /\ result.val = Some(NumericOrder(self, other))

\* C6: adjust_scale(t) of Decimal(u, s) has scale t and unscaled u when s = t,
\* u / 10^(s - t) truncated toward zero when s > t, and u * 10^(t - s) when
\* s < t and that product fits.
C6_AdjustScale ==
    op = "adjust_scale" =>
        LET u == self.unscaled
            s == self.scale
            t == new_scale
        IN  /\ (s = t => (IsOk(result) /\ result.val = new(u, t)))
            /\ (s > t => (IsOk(result) /\ result.val = new(TruncDiv(u, Pow10(s - t)), t)))
            /\ ((s < t /\ InI64(u * Pow10(t - s)))
                    => (IsOk(result) /\ result.val = new(u * Pow10(t - s), t)))

C6_Witness ==
    /\ op = "adjust_scale"
    /\ self = new(-15, 2)
    /\ new_scale = 1
    /\ IsOk(result)
    /\ result.val = new(-1, 1)

Max(a, b) == IF a >= b THEN a ELSE b

\* the outcome the claim gives Add (sign = 1) and Sub (sign = -1): both operands
\* at the larger scale, the smaller-scale one upscaled, then the sum or
\* difference; an abort when any of these leaves the signed range
PromotedSum(r, a, b, sign) ==
    LET m == Max(a.scale, b.scale)
        ua == a.unscaled * Pow10(m - a.scale)
        ub == b.unscaled * Pow10(m - b.scale)
        total == ua + (sign * ub)
    IN  IF InI64(ua) /\ InI64(ub) /\ InI64(total)
        THEN IsOk(r) /\ r.val = new(total, m)
        ELSE IsOverflowPanic(r)

\* C7: a + b and a - b have scale max(a.scale, b.scale) and the sum or
\* difference of the unscaled values once the smaller-scale operand is upscaled
\* (neither is ever downscaled); they abort when the upscaling or the sum or
\* difference does not fit.
C7_AddSubPromote ==
    /\ (op = "add" => PromotedSum(result, self, other, 1))
    /\ (op = "sub" => PromotedSum(result, self, other, -1))

C7_Witness ==
    /\ op = "add"
    /\ self = new(1, 1)
    /\ other = new(-3, 2)
    /\ IsOk(result)
    /\ result.val = new(7, 2)

\* C8: a * b is Decimal(a.unscaled * b.unscaled, a.scale + b.scale), without
\* alignment, and aborts when the product leaves the signed range or the scale
\* sum leaves the unsigned range.
C8_MulSumsScales ==
    op = "mul" =>
        LET product == self.unscaled * other.unscaled
            scale == self.scale + other.scale
        IN  IF InI64(product) /\ InU32(scale)
            THEN IsOk(result) /\ result.val = new(product, scale)
            ELSE IsOverflowPanic(result)

C8_Witness ==
    /\ op = "mul"
    /\ self = new(3, 1)
    /\ other = new(-5, 2)
    /\ IsOk(result)
    /\ result.val = new(-15, 3)

\* the value of a digit string, read left to right
RECURSIVE DecValue(_)
DecValue(D) ==
    IF D = <<>> THEN 0
    ELSE (10 * DecValue(SubSeq(D, 1, Len(D) - 1))) + to_digit(D[Len(D)]).val

\* D is the digit string of a natural number: digits only, no leading zero
\* except for "0" itself
IsDigitString(D) ==
    /\ Len(D) >= 1
    /\ \A i \in 1..Len(D) : D[i] \in Digits
    /\ (Len(D) > 1 => D[1] # "0")

IsDigitChar(c) == c \in Digits

\* the claim's layout of the digits D at a scale > 0
Layout(D, scale) ==
    IF Len(D) <= scale
    THEN <<"0", ".">> \o [i \in 1..(scale - Len(D)) |-> "0"] \o D
    ELSE SubSeq(D, 1, Len(D) - scale) \o <<".">> \o SubSeq(D, Len(D) - scale + 1, Len(D))

\* C9: Display shows exactly `scale` fractional digits: the signed integer at
\* scale 0, otherwise '-' iff unscaled < 0, then the digits D of |unscaled| as
\* "0." + (scale - len(D)) zeros + D when len(D) <= scale, else D with one '.'
\* before its last `scale` digits.
C9_DisplayLayout ==
    op = "fmt" =>
        LET out == result.val
            negative == self.unscaled < 0
            body == IF negative /\ Len(out) >= 1 THEN Tail(out) ELSE out
            shown == SelectSeq(body, IsDigitChar)
        IN  /\ Len(out) >= 1
            /\ (negative <=> out[1] = "-")
            /\ \E n \in 1..Len(shown) :
                  LET D == SubSeq(shown, Len(shown) - n + 1, Len(shown))
                  IN  /\ IsDigitString(D)
                      /\ DecValue(D) = Abs(self.unscaled)
                      /\ body = (IF self.scale = 0 THEN D ELSE Layout(D, self.scale))

C9_Witness ==
    /\ op = "fmt"
    /\ self = new(10, 4)
    /\ result.val = <<"0", ".", "0", "0", "1", "0">>

\* C10: for every non-empty string p of decimal digits,
\* calculate_check_digit(p) is Some(c) with c a single digit 0..9 such that
\* p followed by c is accepted by valid_str.
C10_CheckDigitIsADigit ==
    (op = "calculate_check_digit" /\ str # <<>> /\ \A i \in 1..Len(str) : str[i] \in Digits) =>
        LET c == result.val
        IN  /\ c.some
            /\ c.val \in 0..9
            /\ valid_str(Append(str, DigitChars[c.val + 1]))

\* a non-empty string made only of digits, '.' and an optional '-' in first
\* position
IsDecimalLiteral(s) ==
    /\ Len(s) >= 1
    /\ \A i \in 1..Len(s) : s[i] \in Digits \/ s[i] = "." \/ (s[i] = "-" /\ i = 1)

\* the number of digit characters that occur after the first '.'
DigitsAfterFirstDot(s) ==
    Cardinality({i \in 1..Len(s) :
                    /\ s[i] \in Digits
                    /\ \E j \in 1..(i - 1) : s[j] = "."})

\* C11: for every non-empty string of digits, '.' and an optional leading '-',
\* from_str returns Ok(Decimal(v, k)): v the value of the digit characters read
\* left to right (0 when there are none), negated after a leading '-', and k
\* the number of digits after the first '.'.
C11_ParsedValueAndScale ==
    (op = "from_str" /\ IsDecimalLiteral(str)) =>
        LET magnitude == DecValue(SelectSeq(str, IsDigitChar))
            v == IF str[1] = "-" THEN -magnitude ELSE magnitude
        IN  /\ IsOk(result)
            /\ result.val = new(v, DigitsAfterFirstDot(str))

\* q is n / d truncated toward zero and r the remainder that goes with it:
\* n = q * d + r with |r| < |d| and r zero or of the sign of n
IsQuotientAndRemainder(q, r, n, d) ==
    /\ n = (q * d) + r
    /\ Abs(r) < Abs(d)
    /\ (r = 0 \/ ((r < 0) <=> (n < 0)))

\* the dividend's unscaled value at the scale max(a.scale, b.scale)
AlignedDividend(a, b) == a.unscaled * Pow10(Max(a.scale, b.scale) - a.scale)

\* C12: for all a and b with b.unscaled # 0, with m = max(a.scale, b.scale) and
\* a' the dividend's unscaled value upscaled to m (never downscaled),
\* a / b == Decimal(a' div b.unscaled, m - b.scale) and
\* a % b == Decimal(a' rem b.unscaled, m).
C12_DivRemAlignment ==
    ((op = "div" \/ op = "rem") /\ other.unscaled # 0) =>
        LET m == Max(self.scale, other.scale)
            n == AlignedDividend(self, other)
        IN  /\ IsOk(result)
            /\ result.val.scale = (IF op = "div" THEN m - other.scale ELSE m)
            /\ \E x \in Unscaleds :
                  IF op = "div"
                  THEN IsQuotientAndRemainder(result.val.unscaled, x, n, other.unscaled)
                  ELSE IsQuotientAndRemainder(x, result.val.unscaled, n, other.unscaled)

\* C12 (amended): the same results whenever the aligned dividend a' fits the
\* signed range and the division is not i64::MIN by -1; in those two cases Div
\* and Rem abort with an overflow instead of returning.
C12_DivRemAlignmentUnlessOverflow ==
    ((op = "div" \/ op = "rem") /\ other.unscaled # 0) =>
        LET m == Max(self.scale, other.scale)
            n == AlignedDividend(self, other)
        IN  IF ~InI64(n)
            THEN IsOverflowPanic(result)
            ELSE IF n = I64_MIN /\ other.unscaled = -1
            THEN IsPanic(result) /\ result = (IF op = "div" THEN DivOverflow ELSE RemOverflow)
            ELSE /\ IsOk(result)
                 /\ result.val.scale = (IF op = "div" THEN m - other.scale ELSE m)
                 /\ \E x \in Unscaleds :
                       IF op = "div"
                       THEN IsQuotientAndRemainder(result.val.unscaled, x, n, other.unscaled)
                       ELSE IsQuotientAndRemainder(x, result.val.unscaled, n, other.unscaled)

C12_Witness ==
    /\ op = "rem"
    /\ self = new(-3, 0)
    /\ other = new(7, 1)
    /\ IsOk(result)
    /\ result.val = new(-2, 1)

===========================================================================
